---- MODULE Spec2Model ----
(***************************************************************************)
(* Model of the Netlify edge proxy handler of iazrael/palm-netlify-proxy.   *)
(*                                                                         *)
(* The repository holds four variants of the same handler:                 *)
(*   "single"  src/netlify/functions/proxy.ts   allow-list, one fetch      *)
(*   "retry"   src/unnamed/part_000:1-112        allow-list, retry loop     *)
(*   "landing" src/unnamed/part_000:114-255      allow-list, retry loop,    *)
(*                                               landing page on "/"       *)
(*   "deny"    src/unnamed/part_000:257-394      deny-list, retry loop      *)
(*                                                                         *)
(* One behaviour of the model is one invocation of one variant.  A step is *)
(* what the handler runs between two suspension points (await).            *)
(***************************************************************************)
EXTENDS Integers, Sequences, FiniteSets, TLC

VARIABLES
    variant,     \* which handler variant is deployed
    method,      \* request.method
    path,        \* segments of the pathname of request.url: "/" \o s1 \o "/" \o s2 ...
    query,       \* raw (still encoded) key/value pairs of the query of request.url
    reqHeaders,  \* request.headers: lower-case name -> value
    pc,          \* "start" | "inflight" | "sleeping" | "done" | "thrown"
    url,         \* the upstream URL built by the handler
    headers,     \* the header collection handed to fetch
    attempt,     \* fetchWithRetry's loop counter
    lastError,   \* fetchWithRetry's lastError
    timerArmed,  \* fetchWithTimeout's timeoutId is pending
    trace,       \* upstream calls issued and backoff waits started, in order
    received,    \* the upstream Response the awaited fetch resolved with
    caught,      \* the error bound by the handler's catch block
    response,    \* the Response the handler returned
    failures,    \* what the awaited fetch of each failed attempt rejected with, in order
    timers,      \* the runtime's pending timers: <<"timeout", k>> and <<"sleep", k>>
    pending,     \* the attempts whose upstream call has been issued and has not settled
    bodyState    \* request.body: "none" (null), "readable" or "disturbed"

vars == <<variant, method, path, query, reqHeaders, pc, url, headers,
          attempt, lastError, timerArmed, trace, received, caught, response,
          failures, timers, pending, bodyState>>

\* What only the retry loop and the transport touch.
plumbing == <<failures, timers, pending, bodyState>>

inputs == <<variant, method, path, query, reqHeaders>>

----------------------------------------------------------------------------
(* Bounds of the model.                                                    *)

MaxPathLen == 3
MaxQueryLen == 3
MaxHeaders == 2

----------------------------------------------------------------------------
(* Module constants of the source.                                         *)

REQUEST_TIMEOUT == 20000
MAX_RETRIES == 2
RETRY_DELAY == 1000

UPSTREAM_HOST == "generativelanguage.googleapis.com"

CORS_HEADERS ==
    [k \in {"access-control-allow-origin",
            "access-control-allow-methods",
            "access-control-allow-headers"} |-> "*"]

ALLOWED_HEADERS ==
    {"content-type", "authorization", "x-goog-api-client", "x-goog-api-key",
     "accept-encoding"}

BLOCKED_HEADERS ==
    {"cookie", "set-cookie", "host", "referer", "user-agent", "x-forwarded-for",
     "x-real-ip", "x-forwarded-host", "x-forwarded-proto"}

PROXY_HEADERS ==
    [k \in {"user-agent", "accept", "accept-language", "accept-encoding",
            "cache-control", "pragma"} |->
        CASE k = "user-agent" -> "Mozilla/5.0 (Windows NT 10.0; Win64; x64) AppleWebKit/537.36 (KHTML, like Gecko) Chrome/120.0.0.0 Safari/537.36"
          [] k = "accept" -> "application/json, text/plain, */*"
          [] k = "accept-language" -> "en-US,en;q=0.9"
          [] k = "accept-encoding" -> "gzip, deflate, br"
          [] k = "cache-control" -> "no-cache"
          [] k = "pragma" -> "no-cache"]

Variants == {"single", "retry", "landing", "deny"}

\* Variants whose forward path goes through fetchWithRetry / fetchWithTimeout.
Retrying(v) == v \in {"retry", "landing", "deny"}

----------------------------------------------------------------------------
(* URL handling.  A pathname is the sequence of its segments:              *)
(* <<"v1", "models">> is "/v1/models", <<"">> is "/", <<"", "">> is "//"   *)
(* and <<"", "evil.com", "x">> is "//evil.com/x".                          *)

Segs == {"", "v1", "evil.com", "a%20b"}

NoURL == [ok |-> FALSE, host |-> "", path |-> <<>>, query |-> <<>>]

\* Leading empty segments dropped: the URL parser's "special authority
\* ignore slashes" state skips every further slash before the host.
RECURSIVE SkipSlashes(_)
SkipSlashes(segs) ==
    IF segs = <<>> THEN <<>>
    ELSE IF Head(segs) = "" THEN SkipSlashes(Tail(segs))
    ELSE segs

\* A pathname that begins with "//" is a scheme-relative reference.
StartsWithTwoSlashes(segs) == Len(segs) >= 2 /\ segs[1] = ""

\* The host parser: the percent-decoded host may hold no forbidden code
\* point, such as the space of "a%20b".
ValidHost(s) == s \notin {"", "a%20b"}

\* new URL(pathname, "https://generativelanguage.googleapis.com"):
\* a path-absolute reference keeps the base's host; a scheme-relative one
\* ("//host/rest") takes its host from the reference, and throws
\* (ok = FALSE) when no valid host follows the slashes.
NewURL(segs) ==
    IF StartsWithTwoSlashes(segs)
    THEN LET rest == SkipSlashes(segs)
         IN  IF rest = <<>> \/ ~ValidHost(Head(rest))
             THEN NoURL
             ELSE [ok |-> TRUE, host |-> Head(rest),
                   path |-> IF Tail(rest) = <<>> THEN <<"">> ELSE Tail(rest),
                   query |-> <<>>]
    ELSE [ok |-> TRUE, host |-> UPSTREAM_HOST, path |-> segs, query |-> <<>>]

\* application/x-www-form-urlencoded decoding of one name or value, as
\* URLSearchParams does when it parses request.url.
DecodeComponent(s) ==
    CASE s = "%5Fpath" -> "_path"
      [] s = "a%20b" -> "a b"
      [] s = "a+b" -> "a b"
      [] OTHER -> s

\* application/x-www-form-urlencoded serialisation of one name or value, as
\* url.searchParams.append does when it updates the URL's query.
EncodeComponent(s) ==
    CASE s = "a b" -> "a+b"
      [] OTHER -> s

\* searchParams of new URL(request.url): the decoded pairs, in order.
SearchParams(raw) ==
    [i \in 1..Len(raw) |-> <<DecodeComponent(raw[i][1]), DecodeComponent(raw[i][2])>>]

\* Mutant of DeleteParam: only the first pair of that name is removed.
RECURSIVE DeleteFirstParam(_, _)
DeleteFirstParam(params, name) ==
    IF params = <<>> THEN <<>>
    ELSE IF Head(params)[1] = name THEN Tail(params)
    ELSE <<Head(params)>> \o DeleteFirstParam(Tail(params), name)

\* searchParams.delete(name): every pair of that name is removed.
DeleteParam(params, name) == SelectSeq(params, LAMBDA p : p[1] # name)

\* searchParams.forEach((value, key) => url.searchParams.append(key, value))
RECURSIVE AppendParams(_, _)
AppendParams(urlQuery, params) ==
    IF params = <<>> THEN urlQuery
    ELSE AppendParams(
             Append(urlQuery, <<EncodeComponent(Head(params)[1]),
                                EncodeComponent(Head(params)[2])>>),
             Tail(params))

\* The upstream URL of the forward path.
UpstreamURL(segs, raw) ==
    LET u == NewURL(segs)
    IN  IF ~u.ok THEN u
        ELSE [u EXCEPT !.query =
                 AppendParams(u.query, DeleteParam(SearchParams(raw), "_path"))]

----------------------------------------------------------------------------
(* Header handling.  A Headers object is a function from its (lower-case)  *)
(* names to their values.                                                  *)

EmptyHeaders == [k \in {} |-> ""]

\* String.prototype.toLowerCase on a header name.
ToLowerCase(s) ==
    CASE s = "Cookie" -> "cookie"
      [] s = "Host" -> "host"
      [] s = "User-Agent" -> "user-agent"
      [] OTHER -> s

\* Mutant of pickHeaders: every header is copied.
pickHeadersAll(h, keys) == h

\* pickHeaders of the allow-list variants: keys.some(k => k === key).
pickHeaders(h, keys) ==
    [k \in {x \in DOMAIN h : \E a \in keys : a = x} |-> h[k]]

\* Mutant of pickHeadersDeny: the blocked keys are compared with the wrong list.
pickHeadersDenyAllowed(h, blockedKeys) ==
    [k \in {x \in DOMAIN h : ToLowerCase(x) \notin ALLOWED_HEADERS} |-> h[k]]

\* pickHeaders of the deny-list variant: !blockedKeys.includes(lowerKey).
pickHeadersDeny(h, blockedKeys) ==
    [k \in {x \in DOMAIN h : ToLowerCase(x) \notin blockedKeys} |-> h[k]]

\* addProxyHeaders: six headers.set calls on the filtered collection.
addProxyHeaders(h) ==
    [k \in DOMAIN h \cup DOMAIN PROXY_HEADERS |->
        IF k \in DOMAIN PROXY_HEADERS THEN PROXY_HEADERS[k] ELSE h[k]]

\* The header collection each variant hands to fetch.
UpstreamHeaders(v, h) ==
    IF v = "deny"
    THEN addProxyHeaders(pickHeadersDeny(h, BLOCKED_HEADERS))
    ELSE pickHeaders(h, ALLOWED_HEADERS)

\* Mutant of ResponseHeaders: the CORS headers are spread last.
ResponseHeadersCorsLast(up) ==
    [k \in DOMAIN CORS_HEADERS \cup DOMAIN up |->
        IF k \in DOMAIN CORS_HEADERS THEN CORS_HEADERS[k] ELSE up[k]]

\* { ...CORS_HEADERS, ...Object.fromEntries(response.headers) }
ResponseHeaders(up) ==
    [k \in DOMAIN CORS_HEADERS \cup DOMAIN up |->
        IF k \in DOMAIN up THEN up[k] ELSE CORS_HEADERS[k]]

\* { ...CORS_HEADERS, "content-type": t }
CorsWithContentType(t) ==
    [k \in DOMAIN CORS_HEADERS \cup {"content-type"} |->
        IF k = "content-type" THEN t ELSE CORS_HEADERS[k]]

----------------------------------------------------------------------------
(* Responses.  A body is a tuple: <<"null">>, <<"stream", id>>,            *)
(* <<"html", page>> or <<"json", member, member>>.                         *)

NoResponse == [kind |-> "none", status |-> 0, headers |-> EmptyHeaders, body |-> <<"none">>]

NoUpstreamResponse == [status |-> 0, headers |-> EmptyHeaders, body |-> <<"none">>]

\* new Response(null, { headers: CORS_HEADERS })
PreflightResponse ==
    [kind |-> "preflight", status |-> 200, headers |-> CORS_HEADERS, body |-> <<"null">>]

\* new Response(blank_html, { headers: { ...CORS_HEADERS, "content-type": "text/html" } })
LandingResponse ==
    [kind |-> "landing", status |-> 200,
     headers |-> CorsWithContentType("text/html"), body |-> <<"html", "blank_html">>]

\* The Response constructor takes init.status only from 200 to 599 and throws
\* a RangeError for any other.
ResponseInitOk(status) == status \in 200..599

\* new Response(response.body, { headers: responseHeaders, status: response.status })
ForwardedResponse(r) ==
    [kind |-> "forwarded", status |-> r.status,
     headers |-> ResponseHeaders(r.headers), body |-> r.body]

\* error instanceof Error ? error.message : "Unknown error"
ErrorMessage(err) == IF err.isError THEN err.message ELSE "Unknown error"

\* The 502 response of the catch block.
ErrorResponse(err) ==
    [kind |-> "error", status |-> 502,
     headers |-> CorsWithContentType("application/json"),
     body |-> <<"json", <<"error", "Proxy request failed">>,
                        <<"message", ErrorMessage(err)>> >>]

----------------------------------------------------------------------------
(* Errors.  A thrown value is an Error instance with a message, or some    *)
(* other value, which has none.                                            *)

NoError == [isError |-> FALSE, name |-> "null", message |-> ""]

\* What fetch rejects with when the transport fails or the body stream errors.
NetworkErrors ==
    {[isError |-> TRUE, name |-> "TypeError", message |-> "fetch failed"],
     [isError |-> FALSE, name |-> "string", message |-> ""]}

\* What fetch rejects with after controller.abort().
AbortError ==
    [isError |-> TRUE, name |-> "AbortError", message |-> "The signal has been aborted"]

\* What new Response(...) throws for a status outside 200..599.
RangeError ==
    [isError |-> TRUE, name |-> "RangeError", message |-> "init.status out of range"]

\* What fetch rejects with when init.body is a ReadableStream that an earlier
\* call has locked or disturbed.
BodyUnusableError ==
    [isError |-> TRUE, name |-> "TypeError", message |-> "ReadableStream is locked or disturbed"]

\* What fetch resolves with: any final status, any headers, a body stream.
UpstreamStatuses == {200, 429, 500, 999}

UpstreamHeaderSets ==
    {EmptyHeaders,
     [k \in {"content-type"} |-> "application/json"],
     [k \in {"access-control-allow-origin"} |-> "https://example.com"]}

UpstreamResponses ==
    [status : UpstreamStatuses, headers : UpstreamHeaderSets, body : {<<"stream", "upstream">>}]

----------------------------------------------------------------------------
(* The inbound requests of the model.                                      *)

Methods == {"OPTIONS", "GET", "POST"}

RECURSIVE SeqsUpTo(_, _)
SeqsUpTo(S, n) ==
    IF n = 0 THEN {<<>>}
    ELSE LET shorter == SeqsUpTo(S, n - 1)
         IN  shorter \cup {Append(q, x) : q \in shorter, x \in S}

Paths == SeqsUpTo(Segs, MaxPathLen) \ {<<>>}

RawKeys == {"_path", "%5Fpath", "key"}
RawValues == {"abc", "a%20b"}
Queries == SeqsUpTo(RawKeys \X RawValues, MaxQueryLen)

RequestHeaderNames ==
    {"content-type", "x-goog-api-key", "accept-encoding", "cookie", "user-agent",
     "x-forwarded-for", "accept", "x-custom"}
RequestHeaderValues == {"a", "b"}

HeaderCollections ==
    UNION {[names -> RequestHeaderValues] :
              names \in {n \in SUBSET RequestHeaderNames : Cardinality(n) <= MaxHeaders}}

BasePaths == {<<"">>, <<"v1", "models">>, <<"", "evil.com", "x">>, <<"", "">>}
BaseQuery == <<<<"_path", "abc">>, <<"key", "abc">>>>
BaseHeaders == [k \in {"content-type", "cookie"} |-> "a"]

\* request.body: a stream for a method that carries one, null otherwise.
RequestBody(m) == IF m = "POST" THEN <<"stream", "request">> ELSE <<"null">>

\* The fields the handler's locals hold before it has run.
Fresh ==
    /\ pc = "start"
    /\ url = NoURL
    /\ headers = EmptyHeaders
    /\ attempt = 0
    /\ lastError = NoError
    /\ timerArmed = FALSE
    /\ trace = <<>>
    /\ received = NoUpstreamResponse
    /\ caught = NoError
    /\ response = NoResponse
    /\ failures = <<>>
    /\ timers = {}
    /\ pending = {}
    /\ bodyState = IF RequestBody(method) = <<"null">> THEN "none" ELSE "readable"

\* Every variant, method and kind of path, with one query and one header set.
InitBase ==
    /\ variant \in Variants
    /\ method \in Methods
    /\ path \in BasePaths
    /\ query = BaseQuery
    /\ reqHeaders = BaseHeaders
    /\ Fresh

\* Every path, query and header collection of the bounds, one at a time.
InitInputs ==
    /\ variant \in Variants
    /\ method \in {"OPTIONS", "POST"}
    /\ \/ path \in Paths /\ query = BaseQuery /\ reqHeaders = BaseHeaders
       \/ path = <<"v1", "models">> /\ query \in Queries /\ reqHeaders = BaseHeaders
       \/ path = <<"v1", "models">> /\ query = BaseQuery /\ reqHeaders \in HeaderCollections
    /\ Fresh

Init == InitBase \/ InitInputs

----------------------------------------------------------------------------
(* The handler.                                                            *)

\* Whether the variant's fetch call sets duplex: "half".
Duplex(v) == v \in {"single", "deny"}

\* One upstream call: fetch(url, { body, method, headers, signal?, duplex? }).
FetchEvent(k, u, h) ==
    [type |-> "fetch", attempt |-> k, ms |-> 0,
     url |-> u, method |-> method, headers |-> h,
     body |-> RequestBody(method),
     bodyUsable |-> bodyState # "disturbed",
     duplex |-> Duplex(variant),
     timeout |-> IF Retrying(variant) THEN REQUEST_TIMEOUT ELSE 0]

\* One backoff wait: sleep(ms).
SleepEvent(k, delay) ==
    [type |-> "sleep", attempt |-> k, ms |-> delay,
     url |-> NoURL, method |-> "", headers |-> EmptyHeaders,
     body |-> <<"none">>, bodyUsable |-> FALSE, duplex |-> FALSE, timeout |-> 0]

\* Mutant of BackoffDelay: a constant delay.
BackoffDelayFlat(k) == RETRY_DELAY

\* RETRY_DELAY * (attempt + 1)
BackoffDelay(k) == RETRY_DELAY * (k + 1)

\* attempt < retries
\* Mutant of RetryAfter: only the first failure is retried.
RetryAfterOnce(k) == k < 1

\* Mutant of RetryAfter: the loop waits and goes round once more.
RetryAfterOneMore(k) == k <= MAX_RETRIES

RetryAfter(k) == k < MAX_RETRIES

\* Mutant of IsPreflight: the method is compared in lower case.
IsPreflightLowerCase == method = "options"

\* if (request.method === "OPTIONS")
IsPreflight == method = "OPTIONS"

\* Mutant of IsLandingPage: every variant answers "/" with the page.
IsLandingPageAnyVariant == path = <<"">>

\* if (pathname === "/"), which only the landing-page variant has.
IsLandingPage == variant = "landing" /\ path = <<"">>

\* Mutant of NextLastError: the first error is kept.
KeepFirstError(prev, err) == IF prev = NoError THEN err ELSE prev

\* lastError = error as Error
NextLastError(prev, err) == err

\* Mutant of ClearTimeout: the timer is left pending.
ClearTimeoutNoop(ts, id) == ts

\* clearTimeout(timeoutId)
ClearTimeout(ts, id) == ts \ {id}

\* Mutant of AwaitSleep: the loop goes on while the wait is still pending.
SleepNotAwaited(ts, k) == ts

\* await sleep(delay): the loop resumes when the timer of the wait has fired.
AwaitSleep(ts, k) == ts \ {<<"sleep", k>>}

\* setTimeout(...) as fetchWithTimeout calls it; the single-fetch variant sets none.
ArmTimeout(ts, k) == IF Retrying(variant) THEN ts \cup {<<"timeout", k>>} ELSE ts

\* The call in flight was issued with a body that fetch can still read.
CallUsable == trace[Len(trace)].bodyUsable

\* The preflight short-circuit.
Preflight ==
    /\ pc = "start"
    /\ IsPreflight
    /\ response' = PreflightResponse
    /\ pc' = "done"
    /\ UNCHANGED <<inputs, url, headers, attempt, lastError, timerArmed, trace, received, caught>>
    /\ UNCHANGED plumbing

\* The static landing page.
LandingPage ==
    /\ pc = "start"
    /\ ~IsPreflight
    /\ IsLandingPage
    /\ response' = LandingResponse
    /\ pc' = "done"
    /\ UNCHANGED <<inputs, url, headers, attempt, lastError, timerArmed, trace, received, caught>>
    /\ UNCHANGED plumbing

\* new URL(pathname, base) throws outside the try block: the handler's
\* promise rejects and no Response is returned.
InvalidURL ==
    /\ pc = "start"
    /\ ~IsPreflight
    /\ ~IsLandingPage
    /\ ~NewURL(path).ok
    /\ pc' = "thrown"
    /\ UNCHANGED <<inputs, url, headers, attempt, lastError, timerArmed, trace, received,
                   caught, response>>
    /\ UNCHANGED plumbing

\* The forward path up to its first await: the URL is rebuilt, the headers
\* are filtered and attempt 0 is issued.
Forward ==
    /\ pc = "start"
    /\ ~IsPreflight
    /\ ~IsLandingPage
    /\ NewURL(path).ok
    /\ url' = UpstreamURL(path, query)
    /\ headers' = UpstreamHeaders(variant, reqHeaders)
    /\ attempt' = 0
    /\ lastError' = NoError
    /\ timerArmed' = Retrying(variant)
    /\ timers' = ArmTimeout(timers, 0)
    /\ pending' = pending \cup {0}
    /\ trace' = <<FetchEvent(0, url', headers')>>
    /\ pc' = "inflight"
    /\ UNCHANGED <<inputs, received, caught, response, failures, bodyState>>

\* The awaited fetch resolves: clearTimeout, the response is returned through
\* fetchWithRetry and handed to new Response(...), which is inside the
\* handler's try block.  The request body, if any, has been sent.
FetchResolve ==
    /\ pc = "inflight"
    /\ CallUsable
    /\ \E r \in UpstreamResponses :
          /\ received' = r
          /\ IF ResponseInitOk(r.status)
             THEN /\ response' = ForwardedResponse(r)
                  /\ UNCHANGED caught
             ELSE /\ caught' = RangeError
                  /\ response' = ErrorResponse(caught')
    /\ timerArmed' = FALSE
    /\ timers' = ClearTimeout(timers, <<"timeout", attempt>>)
    /\ pending' = pending \ {attempt}
    /\ bodyState' = IF bodyState = "none" THEN "none" ELSE "disturbed"
    /\ pc' = "done"
    /\ UNCHANGED <<inputs, url, headers, attempt, lastError, trace, failures>>

\* The awaited fetch rejects with err: clearTimeout, then the catch block of
\* fetchWithRetry (or, in the single-fetch variant, of the handler).
OnFetchError(err) ==
    /\ timerArmed' = FALSE
    /\ failures' = Append(failures, err)
    /\ pending' = pending \ {attempt}
    /\ IF ~Retrying(variant)
       THEN /\ caught' = err
            /\ response' = ErrorResponse(caught')
            /\ pc' = "done"
            /\ UNCHANGED <<attempt, lastError, trace, timers>>
       ELSE /\ lastError' = NextLastError(lastError, err)
            /\ IF RetryAfter(attempt)
               THEN /\ trace' = Append(trace, SleepEvent(attempt, BackoffDelay(attempt)))
                    /\ timers' = ClearTimeout(timers, <<"timeout", attempt>>)
                                     \cup {<<"sleep", attempt>>}
                    /\ pc' = "sleeping"
                    /\ UNCHANGED <<attempt, caught, response>>
               ELSE /\ attempt' = attempt + 1
                    /\ timers' = ClearTimeout(timers, <<"timeout", attempt>>)
                    /\ caught' = lastError'
                    /\ response' = ErrorResponse(caught')
                    /\ pc' = "done"
                    /\ UNCHANGED trace
    /\ UNCHANGED <<inputs, url, headers, received>>

\* The transport fails.  A body stream it had been given may have been read from.
FetchReject ==
    /\ pc = "inflight"
    /\ CallUsable
    /\ \E err \in NetworkErrors : OnFetchError(err)
    /\ bodyState' \in (IF bodyState = "readable" THEN {"readable", "disturbed"}
                       ELSE {bodyState})

\* The timer fires before the response headers arrive: controller.abort(),
\* which also cancels the request body.
FetchTimeout ==
    /\ pc = "inflight"
    /\ CallUsable
    /\ timerArmed
    /\ OnFetchError(AbortError)
    /\ bodyState' = IF bodyState = "none" THEN "none" ELSE "disturbed"

\* fetch was handed a body stream that an earlier attempt has disturbed: it
\* rejects without sending anything.
FetchBodyUnusable ==
    /\ pc = "inflight"
    /\ ~CallUsable
    /\ OnFetchError(BodyUnusableError)
    /\ UNCHANGED bodyState

\* The backoff wait ends: the loop increments attempt and issues the next call.
BackoffElapsed ==
    /\ pc = "sleeping"
    /\ attempt' = attempt + 1
    /\ timerArmed' = TRUE
    /\ timers' = ArmTimeout(AwaitSleep(timers, attempt), attempt + 1)
    /\ pending' = pending \cup {attempt + 1}
    /\ trace' = Append(trace, FetchEvent(attempt + 1, url, headers))
    /\ pc' = "inflight"
    /\ UNCHANGED <<inputs, url, headers, lastError, received, caught, response,
                   failures, bodyState>>

Next ==
    \/ Preflight
    \/ LandingPage
    \/ InvalidURL
    \/ Forward
    \/ FetchResolve
    \/ FetchReject
    \/ FetchTimeout
    \/ FetchBodyUnusable
    \/ BackoffElapsed

Spec == Init /\ [][Next]_vars

\* The runtime runs every continuation that is ready and fires every armed
\* timer; the upstream is free never to answer.
Fairness ==
    /\ WF_vars(Preflight)
    /\ WF_vars(LandingPage)
    /\ WF_vars(InvalidURL)
    /\ WF_vars(Forward)
    /\ WF_vars(FetchTimeout)
    /\ WF_vars(FetchBodyUnusable)
    /\ WF_vars(BackoffElapsed)

FairSpec == InitBase /\ [][Next]_vars /\ Fairness

----------------------------------------------------------------------------
(* Vocabulary of the properties.                                           *)

Terminated == pc \in {"done", "thrown"}

FetchEvents == {i \in DOMAIN trace : trace[i].type = "fetch"}

\* The positions of the trace that are backoff waits.
SleepEvents == {i \in DOMAIN trace : trace[i].type = "sleep"}

\* The calls and waits of the invocation as <<type, attempt, ms>>, in order.
TraceShape == [i \in DOMAIN trace |-> <<trace[i].type, trace[i].attempt, trace[i].ms>>]

\* Some upstream call was made and none was answered.
AllAttemptsFailed ==
    /\ pc = "done"
    /\ trace # <<>>
    /\ received = NoUpstreamResponse

\* The pathname begins with "//" and what follows the slashes is no host:
\* nothing ("//", "///") or a name with a forbidden code point ("//a%20b").
NoHostAfterSlashes(segs) ==
    /\ Len(segs) >= 2
    /\ segs[1] = ""
    /\ \/ \A i \in DOMAIN segs : segs[i] = ""
       \/ \E i \in DOMAIN segs :
             /\ segs[i] = "a%20b"
             /\ \A j \in 1..(i - 1) : segs[j] = ""

ThreeCorsNames ==
    {"access-control-allow-origin", "access-control-allow-methods",
     "access-control-allow-headers"}

----------------------------------------------------------------------------
C1_Outcome ==
    /\ pc = "thrown" => method # "OPTIONS" /\ NoHostAfterSlashes(path)
    /\ (Terminated /\ method # "OPTIONS" /\ NoHostAfterSlashes(path)) => pc = "thrown"
    /\ pc = "done" =>
          \/ response.kind = "preflight" /\ method = "OPTIONS"
          \/ /\ response.kind = "landing"
             /\ method # "OPTIONS" /\ variant = "landing" /\ path = <<"">>
          \/ /\ response.kind = "forwarded"
             /\ method # "OPTIONS" /\ received # NoUpstreamResponse
          \/ /\ response.kind = "error" /\ response.status = 502
             /\ method # "OPTIONS" /\ trace # <<>>
             /\ received # NoUpstreamResponse => ~ResponseInitOk(received.status)

----------------------------------------------------------------------------
----------------------------------------------------------------------------
(* C3: every upstream call goes to generativelanguage.googleapis.com with  *)
(* the inbound path unchanged, whatever the inbound path.                  *)
C3_FixedAuthority ==
    \A i \in FetchEvents :
        /\ trace[i].url.host = "generativelanguage.googleapis.com"
        /\ trace[i].url.path = path

----------------------------------------------------------------------------
(* C4: the query of every upstream URL has no parameter named _path, and   *)
(* holds every other inbound parameter with its name, value, multiplicity  *)
(* and order.                                                              *)
C4_QueryCopied ==
    \A i \in FetchEvents :
        LET sent == trace[i].url.query
            inbound == SelectSeq(query, LAMBDA p : DecodeComponent(p[1]) # "_path")
        IN  /\ \A j \in DOMAIN sent : DecodeComponent(sent[j][1]) # "_path"
            /\ Len(sent) = Len(inbound)
            /\ \A j \in DOMAIN sent :
                  /\ DecodeComponent(sent[j][1]) = DecodeComponent(inbound[j][1])
                  /\ DecodeComponent(sent[j][2]) = DecodeComponent(inbound[j][2])

\* C4 witness: a call was made for a query with two _path entries around
\* another parameter.
C4_Witness ==
    /\ FetchEvents # {}
    /\ query = << <<"_path", "abc">>, <<"key", "a%20b">>, <<"%5Fpath", "abc">> >>
    /\ trace[1].url.query = << <<"key", "a+b">> >>

----------------------------------------------------------------------------
(* C5: an OPTIONS request never causes an upstream call, a timer or retry  *)
(* state, and its response has status 200, no body and exactly the three   *)
(* CORS headers.                                                           *)
C5_Preflight ==
    method = "OPTIONS" =>
        /\ trace = <<>>
        /\ ~timerArmed
        /\ attempt = 0 /\ lastError = NoError
        /\ pc \in {"start", "done"}
        /\ pc = "done" =>
              /\ response.status = 200
              /\ response.body = <<"null">>
              /\ DOMAIN response.headers = ThreeCorsNames
              /\ \A k \in ThreeCorsNames : response.headers[k] = "*"

\* C5 witness: an OPTIONS request for "//evil.com/x" has been answered.
C5_Witness ==
    /\ method = "OPTIONS"
    /\ path = <<"", "evil.com", "x">>
    /\ pc = "done"

----------------------------------------------------------------------------
(* C6: once an upstream response has been received, whatever its status,   *)
(* the invocation is over: that attempt was the last call, no wait         *)
(* followed it, and the response returned has the upstream's status and    *)
(* body and is never the 502.  Violated by an upstream status outside      *)
(* 200..599, which the Response constructor refuses.                       *)
C6_UpstreamRelayed ==
    received # NoUpstreamResponse =>
        /\ pc = "done"
        /\ response.kind = "forwarded"
        /\ response.status = received.status
        /\ response.body = received.body
        /\ trace[Len(trace)].type = "fetch"
        /\ trace[Len(trace)].attempt = attempt
        /\ Cardinality(FetchEvents) = attempt + 1

----------------------------------------------------------------------------
(* C7: every response the handler returns carries the three CORS headers,  *)
(* each with the value "*".                                                *)
C7_CorsAlways ==
    pc = "done" =>
        \A k \in ThreeCorsNames :
            k \in DOMAIN response.headers /\ response.headers[k] = "*"

----------------------------------------------------------------------------
(* C8: under the allow-list policy the headers of every upstream call are  *)
(* exactly the inbound entries named content-type, authorization,          *)
(* x-goog-api-client, x-goog-api-key or accept-encoding, with their values.*)
C8_AllowList ==
    variant # "deny" =>
        \A i \in FetchEvents :
            LET sent == trace[i].headers
            IN  /\ DOMAIN sent =
                      DOMAIN reqHeaders \cap
                          {"content-type", "authorization", "x-goog-api-client",
                           "x-goog-api-key", "accept-encoding"}
                /\ \A k \in DOMAIN sent : sent[k] = reqHeaders[k]

\* C8 witness: of x-goog-api-key and x-custom, only the first was sent.
C8_Witness ==
    /\ variant = "retry"
    /\ FetchEvents # {}
    /\ DOMAIN reqHeaders = {"x-goog-api-key", "x-custom"}
    /\ reqHeaders["x-goog-api-key"] = "b"
    /\ DOMAIN trace[1].headers = {"x-goog-api-key"}

----------------------------------------------------------------------------
(* C9: under the deny-list policy no inbound cookie, set-cookie, host,     *)
(* referer, user-agent, x-forwarded-for, x-real-ip, x-forwarded-host or    *)
(* x-forwarded-proto header reaches the upstream call; the six synthetic   *)
(* headers are sent with their fixed values, also over a same-named        *)
(* inbound header; every other inbound header is sent unmodified.          *)
C9_DenyList ==
    variant = "deny" =>
        \A i \in FetchEvents :
            LET sent == trace[i].headers
                blocked == {"cookie", "set-cookie", "host", "referer", "user-agent",
                            "x-forwarded-for", "x-real-ip", "x-forwarded-host",
                            "x-forwarded-proto"}
                synthetic == {"user-agent", "accept", "accept-language",
                              "accept-encoding", "cache-control", "pragma"}
            IN  /\ DOMAIN sent = (DOMAIN reqHeaders \ blocked) \cup synthetic
                /\ \A k \in synthetic : sent[k] = PROXY_HEADERS[k]
                /\ sent["accept"] = "application/json, text/plain, */*"
                /\ \A k \in DOMAIN reqHeaders \ (blocked \cup synthetic) :
                      sent[k] = reqHeaders[k]

\* C9 witness: of cookie and accept, the cookie was dropped and the accept
\* header overwritten.
C9_Witness ==
    /\ variant = "deny"
    /\ FetchEvents # {}
    /\ DOMAIN reqHeaders = {"cookie", "accept"}
    /\ reqHeaders["accept"] = "a"
    /\ "cookie" \notin DOMAIN trace[1].headers
    /\ trace[1].headers["accept"] # "a"

----------------------------------------------------------------------------
(* C10: a forward path that ends without an upstream response ends in the  *)
(* 502 response with the JSON body {error, message} and the three CORS     *)
(* headers plus content-type application/json, never in anything else.     *)
C10_Always502 ==
    (/\ Terminated
     /\ method # "OPTIONS"
     /\ response.kind # "landing"
     /\ received = NoUpstreamResponse) =>
        /\ pc = "done"
        /\ response.status = 502
        /\ response.body =
              <<"json", <<"error", "Proxy request failed">>,
                        <<"message", IF caught.isError THEN caught.message
                                     ELSE "Unknown error">> >>
        /\ DOMAIN response.headers = ThreeCorsNames \cup {"content-type"}
        /\ \A k \in ThreeCorsNames : response.headers[k] = "*"
        /\ response.headers["content-type"] = "application/json"

----------------------------------------------------------------------------
(* C11: fetchWithRetry makes at most MAX_RETRIES + 1 = 3 upstream calls,   *)
(* numbered 0, 1, 2 in order; when an attempt is answered, the number of   *)
(* calls made is the index of that attempt plus one, every earlier attempt *)
(* failed, the answered call is the last event of the invocation and the   *)
(* only waits are the ones between the failed attempts and their           *)
(* successors.                                                             *)
C11_CallsUntilFirstSuccess ==
    Retrying(variant) =>
        /\ Cardinality(FetchEvents) <= MAX_RETRIES + 1
        /\ \A i \in FetchEvents : trace[i].attempt = Cardinality({j \in FetchEvents : j < i})
        /\ received # NoUpstreamResponse =>
              /\ pc = "done"
              /\ pending = {}
              /\ Cardinality(FetchEvents) = Len(failures) + 1
              /\ Cardinality(SleepEvents) = Len(failures)
              /\ trace[Len(trace)].type = "fetch"
              /\ trace[Len(trace)].attempt = Len(failures)
              /\ attempt = Len(failures)

\* C11 witness: two attempts failed, the third was answered and returned.
C11_Witness ==
    /\ Retrying(variant)
    /\ pc = "done"
    /\ received # NoUpstreamResponse
    /\ Len(failures) = 2
    /\ Cardinality(FetchEvents) = 3

----------------------------------------------------------------------------
(* C12: in the retrying variants lastError is always the error of the most *)
(* recent failed attempt, and when every attempt has failed the error the  *)
(* handler catches is the error of the last attempt, unchanged, and the    *)
(* 502 response is built from that error alone.                            *)
C12_LastErrorRaised ==
    Retrying(variant) =>
        /\ lastError = IF failures = <<>> THEN NoError ELSE failures[Len(failures)]
        /\ (pc = "done" /\ received = NoUpstreamResponse /\ trace # <<>>) =>
              /\ Len(failures) = MAX_RETRIES + 1
              /\ caught = failures[MAX_RETRIES + 1]
              /\ response = ErrorResponse(failures[MAX_RETRIES + 1])

\* C12 witness: three attempts failed with three different errors, the last
\* one a timeout, and the 502 carries the timeout's message.
C12_Witness ==
    /\ Retrying(variant)
    /\ pc = "done"
    /\ Len(failures) = 3
    /\ failures[1] # failures[2]
    /\ failures[1] # failures[3]
    /\ failures[2] # failures[3]
    /\ failures[3] = AbortError
    /\ response.status = 502
    /\ response.body[3] = <<"message", AbortError.message>>

----------------------------------------------------------------------------
(* C13: a cancellation timer is pending only while the attempt it was set  *)
(* for is in flight: once that attempt has returned or thrown the timer is *)
(* gone, so the only timer that can fire on a call is that call's own, and *)
(* no timer at all is pending once the handler has terminated.             *)
C13_TimerCleared ==
    /\ \A t \in timers :
          t[1] = "timeout" => pc = "inflight" /\ t[2] = attempt /\ t[2] \in pending
    /\ timerArmed <=> <<"timeout", attempt>> \in timers
    /\ Terminated => timers = {}

\* C13 witness: attempt 0 has thrown and attempt 1 is in flight with its own
\* timer as the only one pending.
C13_Witness ==
    /\ pc = "inflight"
    /\ attempt = 1
    /\ Len(failures) = 1
    /\ timers = {<<"timeout", 1>>}

----------------------------------------------------------------------------
\* The attempt in flight fails in this step with the timeout's abort.
TimedOutStep ==
    /\ pc = "inflight"
    /\ Len(failures') = Len(failures) + 1
    /\ failures'[Len(failures')] = AbortError

(* C14: in the variants that have fetchWithTimeout every call is issued    *)
(* with the 20000 ms limit and a call that is not answered does not stay   *)
(* in flight: it is aborted.  The abort is a failure like any other: after *)
(* attempt 0 or 1 it is followed by the backoff wait of that attempt and   *)
(* then by the next call, after attempt 2 by the 502 response.             *)
C14_TimeoutIsRetryableFailure ==
    /\ [] (Retrying(variant) => \A i \in FetchEvents : trace[i].timeout = 20000)
    /\ [][TimedOutStep =>
            /\ lastError' = AbortError
            /\ ~timerArmed'
            /\ IF attempt < 2
               THEN /\ pc' = "sleeping"
                    /\ attempt' = attempt
                    /\ trace' = Append(trace, SleepEvent(attempt, 1000 * (attempt + 1)))
               ELSE /\ pc' = "done"
                    /\ response' = ErrorResponse(AbortError)
                    /\ trace' = trace]_vars
    /\ \A k \in 0..2 :
          (Retrying(variant) /\ pc = "inflight" /\ attempt = k)
              ~> \/ pc = "done"
                 \/ pc = "inflight" /\ attempt = k + 1

\* C14 witness: attempt 1 timed out and the loop is in its 2000 ms wait.
C14_Witness ==
    /\ pc = "sleeping"
    /\ attempt = 1
    /\ lastError = AbortError
    /\ trace[Len(trace)] = SleepEvent(1, 2000)

----------------------------------------------------------------------------
(* C15: at most one upstream call is in flight, and it is the current      *)
(* attempt's; attempt k is in flight only after attempts 0..k-1 have all   *)
(* failed and the wait before it has elapsed, each call but the first      *)
(* directly follows the wait of its predecessor, and during a wait no call *)
(* is in flight.                                                           *)
C15_Sequential ==
    /\ Cardinality(pending) <= 1
    /\ pending = IF pc = "inflight" THEN {attempt} ELSE {}
    /\ pc = "inflight" =>
          /\ Len(failures) = attempt
          /\ \A t \in timers : t[1] # "sleep"
    /\ pc = "sleeping" =>
          /\ pending = {}
          /\ Len(failures) = attempt + 1
          /\ timers = {<<"sleep", attempt>>}
    /\ \A i \in FetchEvents :
          i > 1 => /\ trace[i - 1].type = "sleep"
                   /\ trace[i - 1].attempt = trace[i].attempt - 1

\* C15 witness: the loop is in the wait after attempt 1 and no call is in flight.
C15_Witness ==
    /\ pc = "sleeping"
    /\ attempt = 1
    /\ pending = {}
    /\ Cardinality(FetchEvents) = 2

----------------------------------------------------------------------------
(* C16: every upstream call that is given the inbound body stream is       *)
(* issued with duplex: "half", in every variant and on every attempt.      *)
(* Violated by the two variants whose fetchWithTimeout passes the options  *)
(* through without the duplex member.                                      *)
C16_HalfDuplexAlways ==
    \A i \in FetchEvents : trace[i].body # <<"null">> => trace[i].duplex

----------------------------------------------------------------------------
(* C17: the headers of a forwarded response are exactly the names of the   *)
(* three CORS headers and of the upstream response's headers; every        *)
(* upstream header has its upstream value, also one whose name is a CORS   *)
(* header's, and a CORS header the upstream did not send has "*".          *)
C17_UpstreamHeadersWin ==
    (pc = "done" /\ response.kind = "forwarded") =>
        /\ DOMAIN response.headers = ThreeCorsNames \cup DOMAIN received.headers
        /\ \A k \in DOMAIN received.headers : response.headers[k] = received.headers[k]
        /\ \A k \in ThreeCorsNames \ DOMAIN received.headers : response.headers[k] = "*"

\* C17 witness: the upstream sent its own access-control-allow-origin and the
\* forwarded response carries it in place of "*".
C17_Witness ==
    /\ pc = "done"
    /\ response.kind = "forwarded"
    /\ "access-control-allow-origin" \in DOMAIN received.headers
    /\ received.headers["access-control-allow-origin"] = "https://example.com"
    /\ response.headers["access-control-allow-origin"] = "https://example.com"
    /\ response.headers["access-control-allow-methods"] = "*"

----------------------------------------------------------------------------
(* C19: for a request that has a body, every attempt of the retry loop is  *)
(* issued with a body stream that can still be read from the start, and    *)
(* every attempt is the same request as attempt 0.  Violated: the one      *)
(* inbound stream is handed to every call, and a call that has begun       *)
(* sending it leaves it disturbed for the calls after it.                  *)
C19_BodyUsableOnRetry ==
    \A i \in FetchEvents :
        /\ trace[i].url = trace[1].url
        /\ trace[i].method = trace[1].method
        /\ trace[i].headers = trace[1].headers
        /\ trace[i].body = trace[1].body
        /\ trace[i].body # <<"null">> => trace[i].bodyUsable

----------------------------------------------------------------------------
(* C20: in the retrying variants the 502 response is returned only when    *)
(* all three attempts have failed, and an invocation in which an attempt   *)
(* received an upstream response ends with the forwarded response.         *)
(* Violated: the forwarded response is constructed inside the try block,   *)
(* and its constructor throws for a status outside 200..599.               *)
C20_ErrorOnlyAfterAllFailed ==
    Retrying(variant) =>
        /\ (pc = "done" /\ response.kind = "error") =>
              /\ Len(failures) = MAX_RETRIES + 1
              /\ received = NoUpstreamResponse
        /\ received # NoUpstreamResponse => response.kind = "forwarded"

====
